---- MODULE Spec2Model ----
(***************************************************************************)
(* Distributed Mandelbrot renderer (main.go, master/slave version).        *)
(*                                                                         *)
(* The master process runs the loop Update, Draw, ProcessKeyboard.  A      *)
(* dirty Update fans out one goroutine per slave (a gRPC CalculateRegion   *)
(* call whose reply is decoded into Pixels) and MaxThreads fragment        *)
(* goroutines for the master's own region, and joins them with two         *)
(* sync.WaitGroups.  A slave process serves CalculateRegion requests with  *)
(* its own fragment goroutines writing into a reused RGBBuffer.            *)
(*                                                                         *)
(* Colours: GetPixelColorAtPosition is an opaque deterministic function of *)
(* the coordinate and the render parameters.  A byte it returns is the     *)
(* term <<channel, x, y, parameters>>; a literal byte n is <<n>>.          *)
(* Durations are abstracted to the number of the frame that measured them. *)
(***************************************************************************)
EXTENDS Integers, Sequences, FiniteSets, TLC

\* ---------------------------------------------------------------- bounds
MaxWidth == 6
MaxHeight == 2
MaxThreadsBound == 3
MaxSlaves == 2
MaxFrames == 2
MaxKeysDown == 1
MaxRegionWidth == 3
MaxRequests == 2
MaxLatency == 2
MaxServed == 4
MaxKeyFrames == 112
MaxPan == 1

VARIABLES
    \* Mandelbrot struct of the master process
    ScreenWidth, ScreenHeight, MaxThreads, SlavesCount,
    SlavesClients, \* conn[c]: client c is connected; c: counter of Init's dial loop
    FragmentWidth, FragmentHeight, RegionWidth, RegionHeight,
    MagnificationFactor, MaxIterations, PanX, PanY, ZoomLevel,
    NeedUpdate, Pixels, Canvas,
    ThreadWaitGroup, DistributedWaitGroup,
    ThreadsProcessTimes, TotalProcessTime,
    \* control state of the master process
    pc,          \* position of main: "connect", "nodial", "update", "wait_threads", "wait_distributed", "draw", "keyboard", "closed", "fatal", "panic"
    threads,     \* the fragment goroutines of the master
    calls,       \* the CalculateRegionInSlaveNode goroutines, one per slave
    slaves,      \* the state of each slave server the master talks to
    frame,       \* number of dirty Updates started
    \* history of the current frame: cells written by each writer
    threadWrites, slaveWrites,
    \* a process started with --role=slave, serving requests of any master
    srv

masterVars == <<ScreenWidth, ScreenHeight, MaxThreads, SlavesCount, SlavesClients,
    FragmentWidth, FragmentHeight, RegionWidth, RegionHeight,
    MagnificationFactor, MaxIterations, PanX, PanY, ZoomLevel,
    NeedUpdate, Pixels, Canvas, ThreadWaitGroup, DistributedWaitGroup,
    ThreadsProcessTimes, TotalProcessTime, pc, threads, calls, slaves,
    frame, threadWrites, slaveWrites>>

vars == <<masterVars, srv>>

\* ---------------------------------------------------------------- helpers
\* int32(math.Ceil(float64(a) / float64(b))) for a >= 0, b > 0
CeilDiv(a, b) == (a + b - 1) \div b

\* the literal byte n
Lit(n) == <<n>>

\* rl.NewColor(r, g, b, a)
NewColor(r, g, b, a) == <<r, g, b, a>>

\* the render parameters a colour depends on
Params(mag, iter, px, py) ==
    [MagnificationFactor |-> mag, MaxIterations |-> iter, PanX |-> px, PanY |-> py]

\* GetPixelColorAtPosition(float64(x)/Mag - PanX, float64(y)/Mag - PanY):
\* the three bytes red, green, blue of the colour of screen coordinate (x, y)
GetPixelColorAtPosition(x, y, p) == <<<<1, x, y, p>>, <<2, x, y, p>>, <<3, x, y, p>>>>

\* ------------------------------------------------------- fragment threads
\* the arguments of one CalculateFragmentInThread call
ThreadArgs(i, xs, ys, xe, ye, off, xre) ==
    [thread_index |-> i, x_start |-> xs, y_start |-> ys, x_end |-> xe,
     y_end |-> ye, offset |-> off, x_region_end |-> xre]

NoArgs == ThreadArgs(0, 0, 0, 0, 0, 0, 0)

\* the columns the loop "for x := x_start; (x <= x_end) && (x < x_region_end)" visits
FragmentColumns(a) == {x \in a.x_start .. a.x_end : x < a.x_region_end}

\* the rows the loop "for y := y_start; y < y_end" visits
FragmentRows(a) == {y \in a.y_start .. (a.y_end - 1) : TRUE}

\* the (x, y) pairs CalculateFragmentInThread evaluates
FragmentCells(a) == FragmentColumns(a) \X FragmentRows(a)

\* the value of the counter i when the loops are at (x, y)
FragmentCounter(a, x, y) == (x - a.x_start) * Cardinality(FragmentRows(a)) + (y - a.y_start)

\* CalculateRegionLocally with the fragment width rounded down
CalculateRegionLocallyFloor(x_start, y_start, x_end, y_end, maxThreads) ==
    LET regionWidth == x_end - x_start
        fragmentWidth == regionWidth \div maxThreads
        fragmentHeight == y_end - y_start
    IN [i \in 0 .. (maxThreads - 1) |->
          ThreadArgs(i, x_start + i * fragmentWidth, y_start,
                     x_start + i * fragmentWidth + fragmentWidth, fragmentHeight,
                     i * fragmentWidth * fragmentHeight, x_end)]

\* the goroutines CalculateRegionLocally(x_start, y_start, x_end, y_end) starts
CalculateRegionLocally(x_start, y_start, x_end, y_end, maxThreads) ==
    LET regionWidth == x_end - x_start
        fragmentWidth == CeilDiv(regionWidth, maxThreads)
        fragmentHeight == y_end - y_start
    IN [i \in 0 .. (maxThreads - 1) |->
          ThreadArgs(i, x_start + i * fragmentWidth, y_start,
                     x_start + i * fragmentWidth + fragmentWidth, fragmentHeight,
                     i * fragmentWidth * fragmentHeight, x_end)]

\* the goroutines the single-computer branch of Update starts
SingleComputerThreads(maxThreads, fragmentWidth, fragmentHeight) ==
    [i \in 0 .. (maxThreads - 1) |->
       ThreadArgs(i, i * fragmentWidth, 0, i * fragmentWidth + fragmentWidth + i,
                  fragmentHeight, 0, fragmentWidth)]

\* m.Pixels[x][y] is inside the slices Init allocated
InScreen(cell, w, h) == cell[1] \in 0 .. (w - 1) /\ cell[2] \in 0 .. (h - 1)

\* a store of the goroutine indexes Pixels out of range
PixelsOverrun(a, w, h) == \E cell \in FragmentCells(a) : ~InScreen(cell, w, h)

\* Pixels after the stores m.Pixels[x][y] = rl.NewColor(red, green, blue, 255)
\* of one fragment goroutine (the stores before an index goes out of range)
StorePixels(pixels, a, p) ==
    [x \in DOMAIN pixels |-> [y \in DOMAIN pixels[x] |->
        IF <<x, y>> \in FragmentCells(a)
        THEN LET c == GetPixelColorAtPosition(x, y, p)
             IN NewColor(c[1], c[2], c[3], Lit(255))
        ELSE pixels[x][y]]]

\* slave branch of CalculateFragmentInThread: the stores into RGBBuffer,
\* as pairs <<index, byte>>
BufferStores(a, p) ==
    UNION {LET c == GetPixelColorAtPosition(cell[1], cell[2], p)
               i == FragmentCounter(a, cell[1], cell[2])
           IN {<<a.offset * 3 + i * 3, c[1]>>,
               <<a.offset * 3 + i * 3 + 1, c[2]>>,
               <<a.offset * 3 + i * 3 + 2, c[3]>>} : cell \in FragmentCells(a)}

\* RGBBuffer after the stores of one fragment goroutine (those in range)
StoreBuffer(buf, a, p) ==
    LET st == BufferStores(a, p)
    IN [k \in DOMAIN buf |->
          IF \E s \in st : s[1] = k THEN (CHOOSE s \in st : s[1] = k)[2] ELSE buf[k]]

\* a store of the goroutine indexes RGBBuffer out of range
BufferOverrun(buf, a, p) == \E s \in BufferStores(a, p) : s[1] \notin DOMAIN buf

\* ------------------------------------------------------------ slave node
\* proto.CalculateRegionRequest
Request(p, rw, rh, idx) ==
    [MagnificationFactor |-> p.MagnificationFactor, MaxIterations |-> p.MaxIterations,
     PanX |-> p.PanX, PanY |-> p.PanY,
     RegionWidth |-> rw, RegionHeight |-> rh, RegionIndex |-> idx]

\* the render parameters a request carries
RequestParams(req) == Params(req.MagnificationFactor, req.MaxIterations, req.PanX, req.PanY)

\* make([]byte, n): indices 0..n-1, all zero
MakeBytes(n) == [k \in 0 .. (n - 1) |-> Lit(0)]

\* len(buf)
BufLen(buf) == Cardinality(DOMAIN buf)

\* the Mandelbrot struct of a slave after Init(false, nil): no buffer yet
SlaveInit(maxThreads) ==
    [MagnificationFactor |-> <<400>>, MaxIterations |-> 8000,
     PanX |-> <<>>, PanY |-> <<>>,
     RegionWidth |-> 0, RegionHeight |-> 0,
     RGBBuffer |-> <<>>, RGBBufferNil |-> TRUE,
     MaxThreads |-> maxThreads, crashed |-> FALSE]

\* CalculateRegion up to the call of CalculateRegionLocally: the fields are
\* set from the request and the buffer is allocated when it is nil
AcceptRequest(s, req) ==
    [s EXCEPT !.MagnificationFactor = req.MagnificationFactor,
              !.MaxIterations = req.MaxIterations,
              !.PanX = req.PanX, !.PanY = req.PanY,
              !.RegionWidth = req.RegionWidth, !.RegionHeight = req.RegionHeight,
              !.RGBBuffer = IF s.RGBBufferNil
                            THEN MakeBytes(req.RegionWidth * req.RegionHeight * 3)
                            ELSE s.RGBBuffer,
              !.RGBBufferNil = FALSE]

\* the fragment goroutines CalculateRegion starts for a request
SlaveThreads(s, req) ==
    CalculateRegionLocally(req.RegionIndex * s.RegionWidth, 0,
                           req.RegionIndex * s.RegionWidth + s.RegionWidth,
                           s.RegionHeight, s.MaxThreads)

\* RGBBuffer after the goroutines 0..n-1 of one request have run
RECURSIVE RunFragments(_, _, _, _)
RunFragments(buf, args, p, n) ==
    IF n = 0 THEN buf
    ELSE StoreBuffer(RunFragments(buf, args, p, n - 1), args[n - 1], p)

\* CalculateRegion served alone: the slave afterwards; a goroutine that
\* indexes RGBBuffer out of range panics and the slave process dies
CalculateRegion(s, req) ==
    LET s1 == AcceptRequest(s, req)
        args == SlaveThreads(s1, req)
        p == RequestParams(req)
    IN [s1 EXCEPT !.RGBBuffer = RunFragments(s1.RGBBuffer, args, p, s1.MaxThreads),
                  !.crashed = \E i \in DOMAIN args : BufferOverrun(s1.RGBBuffer, args[i], p)]

\* ----------------------------------------------------------- master node
Black == NewColor(Lit(0), Lit(0), Lit(0), Lit(255))

\* the render parameters of the master
MasterParams == Params(MagnificationFactor, MaxIterations, PanX, PanY)

\* the process has not exited (log.Fatalf), panicked or left the main loop
Running == pc \notin {"nodial", "fatal", "panic", "closed"}

IdleThread == [st |-> "idle", args |-> NoArgs]

IdleCall == [st |-> "idle", region_index |-> 0, x_start |-> 0, y_start |-> 0,
             x_end |-> 0, y_end |-> 0, request |-> <<>>, response |-> <<>>]

\* Mandelbrot.Init(true, slavesIPs) for a screen of w x h, t threads and
\* s slave addresses, at the head of the loop that dials the slaves; every
\* slave was started with Init(false, nil)
MasterInit(w, h, t, s) ==
    /\ ScreenWidth = w
    /\ ScreenHeight = h
    /\ ZoomLevel = 10
    /\ MagnificationFactor = <<400>>
    /\ MaxIterations = 8000
    /\ PanX = <<>>
    /\ PanY = <<>>
    /\ NeedUpdate = TRUE
    /\ MaxThreads = t
    /\ ThreadsProcessTimes = [i \in 0 .. (t - 1) |-> 0]
    /\ TotalProcessTime = 0
    /\ FragmentWidth = CeilDiv(w - 1, t)
    /\ FragmentHeight = h - 1
    /\ SlavesCount = s
    /\ SlavesClients = [c |-> 0, conn |-> [i \in 0 .. (s - 1) |-> FALSE]]
    /\ RegionWidth = CeilDiv(w - 1, s + 1)
    /\ RegionHeight = h
    /\ Pixels = <<>>
    /\ Canvas = <<>>
    /\ ThreadWaitGroup = 0
    /\ DistributedWaitGroup = 0
    /\ pc = "connect"
    /\ threads = [i \in 0 .. (t - 1) |-> IdleThread]
    /\ calls = [i \in 0 .. (s - 1) |-> IdleCall]
    /\ slaves = [i \in 0 .. (s - 1) |-> SlaveInit(t)]
    /\ frame = 0
    /\ threadWrites = [i \in 0 .. (t - 1) |-> {}]
    /\ slaveWrites = [i \in 0 .. (s - 1) |-> {}]

\* Init, one turn of the dial loop with err == nil: the client of slave c is stored
Dial ==
    /\ pc = "connect"
    /\ SlavesClients.c < SlavesCount
    /\ SlavesClients' = [c |-> SlavesClients.c + 1,
                         conn |-> [SlavesClients.conn EXCEPT ![SlavesClients.c] = TRUE]]
    /\ UNCHANGED <<ScreenWidth, ScreenHeight, MaxThreads, SlavesCount,
                   FragmentWidth, FragmentHeight, RegionWidth, RegionHeight,
                   MagnificationFactor, MaxIterations, PanX, PanY, ZoomLevel,
                   NeedUpdate, Pixels, Canvas, ThreadWaitGroup, DistributedWaitGroup,
                   ThreadsProcessTimes, TotalProcessTime, pc, threads, calls, slaves,
                   frame, threadWrites, slaveWrites, srv>>

\* DialFails that logs the error and goes on with the next slave
DialFailsContinue ==
    /\ pc = "connect"
    /\ SlavesClients.c < SlavesCount
    /\ SlavesClients' = [SlavesClients EXCEPT !.c = SlavesClients.c + 1]
    /\ UNCHANGED <<ScreenWidth, ScreenHeight, MaxThreads, SlavesCount,
                   FragmentWidth, FragmentHeight, RegionWidth, RegionHeight,
                   MagnificationFactor, MaxIterations, PanX, PanY, ZoomLevel,
                   NeedUpdate, Pixels, Canvas, ThreadWaitGroup, DistributedWaitGroup,
                   ThreadsProcessTimes, TotalProcessTime, pc, threads, calls, slaves,
                   frame, threadWrites, slaveWrites, srv>>

\* Init, one turn of the dial loop with err != nil: log.Fatalf ends the process
DialFails ==
    /\ pc = "connect"
    /\ SlavesClients.c < SlavesCount
    /\ pc' = "nodial"
    /\ UNCHANGED <<ScreenWidth, ScreenHeight, MaxThreads, SlavesCount, SlavesClients,
                   FragmentWidth, FragmentHeight, RegionWidth, RegionHeight,
                   MagnificationFactor, MaxIterations, PanX, PanY, ZoomLevel,
                   NeedUpdate, Pixels, Canvas, ThreadWaitGroup, DistributedWaitGroup,
                   ThreadsProcessTimes, TotalProcessTime, threads, calls, slaves,
                   frame, threadWrites, slaveWrites, srv>>

\* Init after the dial loop: Pixels is allocated and painted black, Init
\* returns and main enters its loop
InitDone ==
    /\ pc = "connect"
    /\ SlavesClients.c >= SlavesCount
    /\ Pixels' = [x \in 0 .. (ScreenWidth - 1) |-> [y \in 0 .. (ScreenHeight - 1) |-> Black]]
    /\ pc' = "update"
    /\ UNCHANGED <<ScreenWidth, ScreenHeight, MaxThreads, SlavesCount, SlavesClients,
                   FragmentWidth, FragmentHeight, RegionWidth, RegionHeight,
                   MagnificationFactor, MaxIterations, PanX, PanY, ZoomLevel,
                   NeedUpdate, Canvas, ThreadWaitGroup, DistributedWaitGroup,
                   ThreadsProcessTimes, TotalProcessTime, threads, calls, slaves,
                   frame, threadWrites, slaveWrites, srv>>

\* SlaveRegionCall with the region starting on the previous region's last column
SlaveRegionCallOverlap(regionIndex) ==
    [st |-> "sent", region_index |-> regionIndex,
     x_start |-> regionIndex * RegionWidth, y_start |-> 0,
     x_end |-> regionIndex * RegionWidth + RegionWidth, y_end |-> RegionHeight,
     request |-> Request(MasterParams, RegionWidth, RegionHeight, regionIndex),
     response |-> <<>>]

\* SlaveRegionCall with a request that carries the start-up parameters
SlaveRegionCallInitialParams(regionIndex) ==
    [st |-> "sent", region_index |-> regionIndex,
     x_start |-> regionIndex * RegionWidth + 1, y_start |-> 0,
     x_end |-> regionIndex * RegionWidth + RegionWidth, y_end |-> RegionHeight,
     request |-> Request(Params(<<400>>, 8000, <<>>, <<>>), RegionWidth, RegionHeight, regionIndex),
     response |-> <<>>]

\* the arguments Update passes to CalculateRegionInSlaveNode for a slave
SlaveRegionCall(regionIndex) ==
    [st |-> "sent", region_index |-> regionIndex,
     x_start |-> regionIndex * RegionWidth + 1, y_start |-> 0,
     x_end |-> regionIndex * RegionWidth + RegionWidth, y_end |-> RegionHeight,
     request |-> Request(MasterParams, RegionWidth, RegionHeight, regionIndex),
     response |-> <<>>]

\* the goroutines Update starts for the master's own pixels
MasterThreads ==
    IF SlavesCount = 0
    THEN SingleComputerThreads(MaxThreads, FragmentWidth, FragmentHeight)
    ELSE CalculateRegionLocally(SlavesCount * RegionWidth + 1, 0,
                                SlavesCount * RegionWidth + RegionWidth,
                                RegionHeight, MaxThreads)

\* UpdateClean without the early return: the frame is computed again
UpdateCleanRecomputes ==
    /\ pc = "update"
    /\ ~NeedUpdate
    /\ calls' = [i \in DOMAIN calls |-> SlaveRegionCall(i)]
    /\ DistributedWaitGroup' = DistributedWaitGroup + SlavesCount
    /\ threads' = [i \in DOMAIN threads |-> [st |-> "ready", args |-> MasterThreads[i]]]
    /\ ThreadWaitGroup' = ThreadWaitGroup + MaxThreads
    /\ threadWrites' = [i \in DOMAIN threadWrites |-> {}]
    /\ slaveWrites' = [i \in DOMAIN slaveWrites |-> {}]
    /\ pc' = "wait_threads"
    /\ UNCHANGED <<ScreenWidth, ScreenHeight, MaxThreads, SlavesCount, SlavesClients,
                   FragmentWidth, FragmentHeight, RegionWidth, RegionHeight,
                   MagnificationFactor, MaxIterations, PanX, PanY, ZoomLevel,
                   NeedUpdate, Pixels, Canvas, ThreadsProcessTimes,
                   TotalProcessTime, slaves, frame, srv>>

\* Update with NeedUpdate false: returns at once
UpdateClean ==
    /\ pc = "update"
    /\ ~NeedUpdate
    /\ pc' = "draw"
    /\ UNCHANGED <<ScreenWidth, ScreenHeight, MaxThreads, SlavesCount, SlavesClients,
                   FragmentWidth, FragmentHeight, RegionWidth, RegionHeight,
                   MagnificationFactor, MaxIterations, PanX, PanY, ZoomLevel,
                   NeedUpdate, Pixels, Canvas, ThreadWaitGroup, DistributedWaitGroup,
                   ThreadsProcessTimes, TotalProcessTime, threads, calls, slaves,
                   frame, threadWrites, slaveWrites, srv>>

\* Update with NeedUpdate true, up to the first Wait: one goroutine per
\* slave (DistributedWaitGroup.Add) and MaxThreads fragment goroutines
\* (ThreadWaitGroup.Add) are started
UpdateDirty ==
    /\ pc = "update"
    /\ NeedUpdate
    /\ frame' = frame + 1
    /\ calls' = [i \in DOMAIN calls |-> SlaveRegionCall(i)]
    /\ DistributedWaitGroup' = DistributedWaitGroup + SlavesCount
    /\ threads' = [i \in DOMAIN threads |-> [st |-> "ready", args |-> MasterThreads[i]]]
    /\ ThreadWaitGroup' = ThreadWaitGroup + MaxThreads
    /\ threadWrites' = [i \in DOMAIN threadWrites |-> {}]
    /\ slaveWrites' = [i \in DOMAIN slaveWrites |-> {}]
    /\ pc' = "wait_threads"
    /\ UNCHANGED <<ScreenWidth, ScreenHeight, MaxThreads, SlavesCount, SlavesClients,
                   FragmentWidth, FragmentHeight, RegionWidth, RegionHeight,
                   MagnificationFactor, MaxIterations, PanX, PanY, ZoomLevel,
                   NeedUpdate, Pixels, Canvas, ThreadsProcessTimes,
                   TotalProcessTime, slaves, srv>>

\* CalculateFragmentInThread without the deferred ThreadWaitGroup.Done()
CalculateFragmentInThreadNoDone(t) ==
    /\ Running
    /\ threads[t].st = "ready"
    /\ LET a == threads[t].args
       IN /\ Pixels' = StorePixels(Pixels, a, MasterParams)
          /\ threadWrites' = [threadWrites EXCEPT ![t] =
                 {c \in FragmentCells(a) : InScreen(c, ScreenWidth, ScreenHeight)}]
          /\ IF PixelsOverrun(a, ScreenWidth, ScreenHeight)
             THEN /\ pc' = "panic"
                  /\ UNCHANGED <<threads, ThreadWaitGroup, ThreadsProcessTimes>>
             ELSE /\ pc' = pc
                  /\ threads' = [threads EXCEPT ![t].st = "done"]
                  /\ ThreadWaitGroup' = ThreadWaitGroup
                  /\ ThreadsProcessTimes' = [ThreadsProcessTimes EXCEPT ![t] = frame]
    /\ UNCHANGED <<ScreenWidth, ScreenHeight, MaxThreads, SlavesCount, SlavesClients,
                   FragmentWidth, FragmentHeight, RegionWidth, RegionHeight,
                   MagnificationFactor, MaxIterations, PanX, PanY, ZoomLevel,
                   NeedUpdate, Canvas, DistributedWaitGroup, TotalProcessTime,
                   calls, slaves, frame, slaveWrites, srv>>

\* CalculateFragmentInThread on the master: the goroutine stores its cells
\* in Pixels, records its time and calls ThreadWaitGroup.Done; an index out
\* of range panics and ends the process
CalculateFragmentInThread(t) ==
    /\ Running
    /\ threads[t].st = "ready"
    /\ LET a == threads[t].args
       IN /\ Pixels' = StorePixels(Pixels, a, MasterParams)
          /\ threadWrites' = [threadWrites EXCEPT ![t] =
                 {c \in FragmentCells(a) : InScreen(c, ScreenWidth, ScreenHeight)}]
          /\ IF PixelsOverrun(a, ScreenWidth, ScreenHeight)
             THEN /\ pc' = "panic"
                  /\ UNCHANGED <<threads, ThreadWaitGroup, ThreadsProcessTimes>>
             ELSE /\ pc' = pc
                  /\ threads' = [threads EXCEPT ![t].st = "done"]
                  /\ ThreadWaitGroup' = ThreadWaitGroup - 1
                  /\ ThreadsProcessTimes' = [ThreadsProcessTimes EXCEPT ![t] = frame]
    /\ UNCHANGED <<ScreenWidth, ScreenHeight, MaxThreads, SlavesCount, SlavesClients,
                   FragmentWidth, FragmentHeight, RegionWidth, RegionHeight,
                   MagnificationFactor, MaxIterations, PanX, PanY, ZoomLevel,
                   NeedUpdate, Canvas, DistributedWaitGroup, TotalProcessTime,
                   calls, slaves, frame, slaveWrites, srv>>

\* ThreadsJoined without waiting for the counter to reach zero
ThreadsJoinedNoWait ==
    /\ pc = "wait_threads"
    /\ IF SlavesCount = 0
       THEN pc' = "draw" /\ TotalProcessTime' = frame
       ELSE pc' = "wait_distributed" /\ UNCHANGED TotalProcessTime
    /\ UNCHANGED <<ScreenWidth, ScreenHeight, MaxThreads, SlavesCount, SlavesClients,
                   FragmentWidth, FragmentHeight, RegionWidth, RegionHeight,
                   MagnificationFactor, MaxIterations, PanX, PanY, ZoomLevel,
                   NeedUpdate, Pixels, Canvas, ThreadWaitGroup, DistributedWaitGroup,
                   ThreadsProcessTimes, threads, calls, slaves,
                   frame, threadWrites, slaveWrites, srv>>

\* ThreadsJoined returning from Update without DistributedWaitGroup.Wait()
ThreadsJoinedNoDistributedWait ==
    /\ pc = "wait_threads"
    /\ ThreadWaitGroup = 0
    /\ pc' = "draw"
    /\ TotalProcessTime' = frame
    /\ UNCHANGED <<ScreenWidth, ScreenHeight, MaxThreads, SlavesCount, SlavesClients,
                   FragmentWidth, FragmentHeight, RegionWidth, RegionHeight,
                   MagnificationFactor, MaxIterations, PanX, PanY, ZoomLevel,
                   NeedUpdate, Pixels, Canvas, ThreadWaitGroup, DistributedWaitGroup,
                   ThreadsProcessTimes, threads, calls, slaves,
                   frame, threadWrites, slaveWrites, srv>>

\* ThreadWaitGroup.Wait() returns: in single-computer mode Update sets
\* TotalProcessTime and returns, otherwise it goes on to DistributedWaitGroup.Wait()
ThreadsJoined ==
    /\ pc = "wait_threads"
    /\ ThreadWaitGroup = 0
    /\ IF SlavesCount = 0
       THEN pc' = "draw" /\ TotalProcessTime' = frame
       ELSE pc' = "wait_distributed" /\ UNCHANGED TotalProcessTime
    /\ UNCHANGED <<ScreenWidth, ScreenHeight, MaxThreads, SlavesCount, SlavesClients,
                   FragmentWidth, FragmentHeight, RegionWidth, RegionHeight,
                   MagnificationFactor, MaxIterations, PanX, PanY, ZoomLevel,
                   NeedUpdate, Pixels, Canvas, ThreadWaitGroup, DistributedWaitGroup,
                   ThreadsProcessTimes, threads, calls, slaves,
                   frame, threadWrites, slaveWrites, srv>>

\* SlavesJoined without waiting for the counter to reach zero
SlavesJoinedNoWait ==
    /\ pc = "wait_distributed"
    /\ pc' = "draw"
    /\ TotalProcessTime' = frame
    /\ UNCHANGED <<ScreenWidth, ScreenHeight, MaxThreads, SlavesCount, SlavesClients,
                   FragmentWidth, FragmentHeight, RegionWidth, RegionHeight,
                   MagnificationFactor, MaxIterations, PanX, PanY, ZoomLevel,
                   NeedUpdate, Pixels, Canvas, ThreadWaitGroup, DistributedWaitGroup,
                   ThreadsProcessTimes, threads, calls, slaves,
                   frame, threadWrites, slaveWrites, srv>>

\* DistributedWaitGroup.Wait() returns: Update sets TotalProcessTime and returns
SlavesJoined ==
    /\ pc = "wait_distributed"
    /\ DistributedWaitGroup = 0
    /\ pc' = "draw"
    /\ TotalProcessTime' = frame
    /\ UNCHANGED <<ScreenWidth, ScreenHeight, MaxThreads, SlavesCount, SlavesClients,
                   FragmentWidth, FragmentHeight, RegionWidth, RegionHeight,
                   MagnificationFactor, MaxIterations, PanX, PanY, ZoomLevel,
                   NeedUpdate, Pixels, Canvas, ThreadWaitGroup, DistributedWaitGroup,
                   ThreadsProcessTimes, threads, calls, slaves,
                   frame, threadWrites, slaveWrites, srv>>

\* the cells the decoding loops of CalculateRegionInSlaveNode visit
DecodeCells(c, w) ==
    {x \in c.x_start .. c.x_end : x < w} \X {y \in c.y_start .. (c.y_end - 1) : TRUE}

\* DecodeCounter of a decoder that reads the buffer row by row
DecodeCounterRowMajor(c, x, y) == (y - c.y_start) * (c.x_end - c.x_start + 1) + (x - c.x_start)

\* the value of the counter i when the decoding loops are at (x, y)
DecodeCounter(c, x, y) == (x - c.x_start) * (c.y_end - c.y_start) + (y - c.y_start)

\* a read of rgbBuffer or a store into Pixels is out of range
DecodeOverrun(c, buf, w, h) ==
    \E cell \in DecodeCells(c, w) :
        \/ DecodeCounter(c, cell[1], cell[2]) * 3 + 2 \notin DOMAIN buf
        \/ ~InScreen(cell, w, h)

\* Pixels after m.Pixels[x][y] = rl.NewColor(rgbBuffer[i*3], rgbBuffer[i*3+1], rgbBuffer[i*3+2], 255)
DecodePixels(pixels, c, buf, w) ==
    [x \in DOMAIN pixels |-> [y \in DOMAIN pixels[x] |->
        LET i == DecodeCounter(c, x, y)
        IN IF <<x, y>> \in DecodeCells(c, w) /\ (i * 3 + 2) \in DOMAIN buf
           THEN NewColor(buf[i * 3], buf[i * 3 + 1], buf[i * 3 + 2], Lit(255))
           ELSE pixels[x][y]]]

\* the slave of a pending call serves the request (MandelbrotSlaveNodeServer.CalculateRegion)
\* and the reply, a copy of its RGBBuffer, is on its way to the master
SlaveServes(i) ==
    /\ Running
    /\ calls[i].st = "sent"
    /\ ~slaves[i].crashed
    /\ LET s1 == CalculateRegion(slaves[i], calls[i].request)
       IN /\ slaves' = [slaves EXCEPT ![i] = s1]
          /\ calls' = IF s1.crashed THEN calls
                      ELSE [calls EXCEPT ![i].st = "served", ![i].response = s1.RGBBuffer]
    /\ UNCHANGED <<ScreenWidth, ScreenHeight, MaxThreads, SlavesCount, SlavesClients,
                   FragmentWidth, FragmentHeight, RegionWidth, RegionHeight,
                   MagnificationFactor, MaxIterations, PanX, PanY, ZoomLevel,
                   NeedUpdate, Pixels, Canvas, ThreadWaitGroup, DistributedWaitGroup,
                   ThreadsProcessTimes, TotalProcessTime, pc, threads,
                   frame, threadWrites, slaveWrites, srv>>

\* CalculateRegionInSlaveNode, err == nil: the reply is decoded into Pixels
\* and the deferred DistributedWaitGroup.Done() runs
CalculateRegionInSlaveNode(i) ==
    /\ Running
    /\ calls[i].st = "served"
    /\ LET c == calls[i]
       IN /\ Pixels' = DecodePixels(Pixels, c, c.response, ScreenWidth)
          /\ slaveWrites' = [slaveWrites EXCEPT ![i] =
                 {cell \in DecodeCells(c, ScreenWidth) :
                     (DecodeCounter(c, cell[1], cell[2]) * 3 + 2) \in DOMAIN c.response}]
          /\ IF DecodeOverrun(c, c.response, ScreenWidth, ScreenHeight)
             THEN /\ pc' = "panic"
                  /\ UNCHANGED <<calls, DistributedWaitGroup>>
             ELSE /\ pc' = pc
                  /\ calls' = [calls EXCEPT ![i].st = "done"]
                  /\ DistributedWaitGroup' = DistributedWaitGroup - 1
    /\ UNCHANGED <<ScreenWidth, ScreenHeight, MaxThreads, SlavesCount, SlavesClients,
                   FragmentWidth, FragmentHeight, RegionWidth, RegionHeight,
                   MagnificationFactor, MaxIterations, PanX, PanY, ZoomLevel,
                   NeedUpdate, Canvas, ThreadWaitGroup, ThreadsProcessTimes,
                   TotalProcessTime, threads, slaves, frame, threadWrites, srv>>

\* CalculateRegionInSlaveNode, err != nil (the one-second deadline passed or
\* the transport failed): log.Fatalf ends the process
SlaveCallFails(i) ==
    /\ Running
    /\ calls[i].st \in {"sent", "served"}
    /\ pc' = "fatal"
    /\ UNCHANGED <<ScreenWidth, ScreenHeight, MaxThreads, SlavesCount, SlavesClients,
                   FragmentWidth, FragmentHeight, RegionWidth, RegionHeight,
                   MagnificationFactor, MaxIterations, PanX, PanY, ZoomLevel,
                   NeedUpdate, Pixels, Canvas, ThreadWaitGroup, DistributedWaitGroup,
                   ThreadsProcessTimes, TotalProcessTime, threads, calls, slaves,
                   frame, threadWrites, slaveWrites, srv>>

\* Draw: every pixel of Pixels is drawn on the canvas
Draw ==
    /\ pc = "draw"
    /\ Canvas' = Pixels
    /\ pc' = "keyboard"
    /\ UNCHANGED <<ScreenWidth, ScreenHeight, MaxThreads, SlavesCount, SlavesClients,
                   FragmentWidth, FragmentHeight, RegionWidth, RegionHeight,
                   MagnificationFactor, MaxIterations, PanX, PanY, ZoomLevel,
                   NeedUpdate, Pixels, ThreadWaitGroup, DistributedWaitGroup,
                   ThreadsProcessTimes, TotalProcessTime, threads, calls, slaves,
                   frame, threadWrites, slaveWrites, srv>>

\* ------------------------------------------------------------- keyboard
Keys == {"Left", "Right", "Up", "Down", "A", "S"}

\* the sets of keys that can be down in one ProcessKeyboard
KeyInputs == {k \in SUBSET Keys : Cardinality(k) <= MaxKeysDown}

\* int(m.ZoomLevel): ZoomLevel is kept in hundredths, Go truncates toward zero
TruncInt(z) == IF z >= 0 THEN z \div 100 ELSE -((-z) \div 100)

\* pan +/- d * MovementOffset[idx]: a pan is the net number of steps taken
\* with each entry of MovementOffset, from the initial value
PanAdd(pan, idx, d) ==
    LET c == (IF idx \in DOMAIN pan THEN pan[idx] ELSE 0) + d
    IN IF c = 0 THEN [k \in DOMAIN pan \ {idx} |-> pan[k]]
       ELSE [k \in DOMAIN pan \cup {idx} |-> IF k = idx THEN c ELSE pan[k]]

\* 1 when the key is down, else 0
Down(keys, k) == IF k \in keys THEN 1 ELSE 0

\* ProcessKeyboard whose zoom keys leave NeedUpdate false
ProcessKeyboardZoomNoUpdate(keys) ==
    /\ pc = "keyboard"
    /\ LET idx == TruncInt(ZoomLevel)
           arrows == keys \cap {"Left", "Right", "Up", "Down"}
           z == ZoomLevel + Down(keys, "A") - Down(keys, "S")
       IN IF arrows # {} /\ idx \notin 0 .. 15
          THEN /\ pc' = "panic"
               /\ NeedUpdate' = FALSE
               /\ UNCHANGED <<PanX, PanY, ZoomLevel, MagnificationFactor, MaxIterations>>
          ELSE /\ pc' = "update"
               /\ NeedUpdate' = (arrows # {})
               /\ PanX' = PanAdd(PanX, idx, Down(keys, "Right") - Down(keys, "Left"))
               /\ PanY' = PanAdd(PanY, idx, Down(keys, "Up") - Down(keys, "Down"))
               /\ ZoomLevel' = z
               /\ IF keys \cap {"A", "S"} # {}
                  THEN /\ MagnificationFactor' = <<400, 3 * z>>
                       /\ MaxIterations' = 8000 + 50 * z
                  ELSE UNCHANGED <<MagnificationFactor, MaxIterations>>
    /\ UNCHANGED <<ScreenWidth, ScreenHeight, MaxThreads, SlavesCount, SlavesClients,
                   FragmentWidth, FragmentHeight, RegionWidth, RegionHeight,
                   Pixels, Canvas, ThreadWaitGroup, DistributedWaitGroup,
                   ThreadsProcessTimes, TotalProcessTime, threads, calls, slaves,
                   frame, threadWrites, slaveWrites, srv>>

\* ProcessKeyboard with the given keys down
ProcessKeyboard(keys) ==
    /\ pc = "keyboard"
    /\ LET idx == TruncInt(ZoomLevel)
           arrows == keys \cap {"Left", "Right", "Up", "Down"}
           z == ZoomLevel + Down(keys, "A") - Down(keys, "S")
       IN IF arrows # {} /\ idx \notin 0 .. 15
          THEN /\ pc' = "panic"
               /\ NeedUpdate' = FALSE
               /\ UNCHANGED <<PanX, PanY, ZoomLevel, MagnificationFactor, MaxIterations>>
          ELSE /\ pc' = "update"
               /\ NeedUpdate' = (keys # {})
               /\ PanX' = PanAdd(PanX, idx, Down(keys, "Right") - Down(keys, "Left"))
               /\ PanY' = PanAdd(PanY, idx, Down(keys, "Up") - Down(keys, "Down"))
               /\ ZoomLevel' = z
               /\ IF keys \cap {"A", "S"} # {}
                  THEN /\ MagnificationFactor' = <<400, 3 * z>>
                       /\ MaxIterations' = 8000 + 50 * z
                  ELSE UNCHANGED <<MagnificationFactor, MaxIterations>>
    /\ UNCHANGED <<ScreenWidth, ScreenHeight, MaxThreads, SlavesCount, SlavesClients,
                   FragmentWidth, FragmentHeight, RegionWidth, RegionHeight,
                   Pixels, Canvas, ThreadWaitGroup, DistributedWaitGroup,
                   ThreadsProcessTimes, TotalProcessTime, threads, calls, slaves,
                   frame, threadWrites, slaveWrites, srv>>

\* the keys of one ProcessKeyboard: no key is pressed once MaxFrames frames were computed
Keyboard ==
    \E keys \in (IF frame < MaxFrames THEN KeyInputs ELSE {{}}) : ProcessKeyboard(keys)

\* rl.WindowShouldClose() is true at the head of the main loop
WindowShouldClose ==
    /\ pc = "update"
    /\ pc' = "closed"
    /\ UNCHANGED <<ScreenWidth, ScreenHeight, MaxThreads, SlavesCount, SlavesClients,
                   FragmentWidth, FragmentHeight, RegionWidth, RegionHeight,
                   MagnificationFactor, MaxIterations, PanX, PanY, ZoomLevel,
                   NeedUpdate, Pixels, Canvas, ThreadWaitGroup, DistributedWaitGroup,
                   ThreadsProcessTimes, TotalProcessTime, threads, calls, slaves,
                   frame, threadWrites, slaveWrites, srv>>

\* ------------------------------------------- a process started as slave
\* the slave process after main: Init(false, nil), the server is listening
SrvInit(maxThreads) ==
    [m |-> SlaveInit(maxThreads), st |-> "idle", request |-> <<>>,
     threads |-> [i \in 0 .. (maxThreads - 1) |-> IdleThread],
     ThreadWaitGroup |-> 0, response |-> <<>>, served |-> 0]

\* the render parameters a master can send: the initial ones and those after key A
RequestParamsInputs == {Params(<<400>>, 8000, <<>>, <<>>), Params(<<400, 33>>, 8550, <<>>, <<>>)}

\* the requests a slave can receive
RequestInputs ==
    {Request(p, rw, rh, idx) : p \in RequestParamsInputs, rw \in 1 .. MaxRegionWidth,
                               rh \in 1 .. MaxHeight, idx \in 0 .. 1}

\* CalculateRegion up to ThreadWaitGroup.Wait(): the request's fields are
\* stored, the buffer is allocated when nil, the fragment goroutines start
SrvCalculateRegion(req) ==
    /\ srv.st = "idle"
    /\ ~srv.m.crashed
    /\ srv.served < MaxRequests
    /\ LET m1 == AcceptRequest(srv.m, req)
           args == SlaveThreads(m1, req)
       IN srv' = [srv EXCEPT !.m = m1, !.st = "wait", !.request = req,
                             !.threads = [i \in DOMAIN args |-> [st |-> "ready", args |-> args[i]]],
                             !.ThreadWaitGroup = srv.ThreadWaitGroup + m1.MaxThreads]
    /\ UNCHANGED masterVars

\* CalculateFragmentInThread on the slave: the goroutine stores its bytes in
\* RGBBuffer and calls ThreadWaitGroup.Done; an index out of range panics
\* and ends the slave process
SrvCalculateFragmentInThread(t) ==
    /\ ~srv.m.crashed
    /\ srv.threads[t].st = "ready"
    /\ LET a == srv.threads[t].args
           p == Params(srv.m.MagnificationFactor, srv.m.MaxIterations, srv.m.PanX, srv.m.PanY)
       IN IF BufferOverrun(srv.m.RGBBuffer, a, p)
          THEN srv' = [srv EXCEPT !.m.RGBBuffer = StoreBuffer(srv.m.RGBBuffer, a, p),
                                  !.m.crashed = TRUE]
          ELSE srv' = [srv EXCEPT !.m.RGBBuffer = StoreBuffer(srv.m.RGBBuffer, a, p),
                                  !.threads[t].st = "done",
                                  !.ThreadWaitGroup = srv.ThreadWaitGroup - 1]
    /\ UNCHANGED masterVars

\* CalculateRegion after ThreadWaitGroup.Wait(): the reply carries RGBBuffer
SrvReturn ==
    /\ srv.st = "wait"
    /\ ~srv.m.crashed
    /\ srv.ThreadWaitGroup = 0
    /\ srv' = [srv EXCEPT !.st = "idle", !.response = srv.m.RGBBuffer,
                          !.served = srv.served + 1]
    /\ UNCHANGED masterVars

\* ------------------------------------------------------- specification
\* the master with its slaves
Init ==
    /\ \E w \in 1 .. MaxWidth, h \in 1 .. MaxHeight,
          t \in 1 .. MaxThreadsBound, s \in 0 .. MaxSlaves : MasterInit(w, h, t, s)
    /\ srv = SrvInit(1)

Next ==
    \/ Dial
    \/ DialFails
    \/ InitDone
    \/ UpdateClean
    \/ UpdateDirty
    \/ \E t \in DOMAIN threads : CalculateFragmentInThread(t)
    \/ ThreadsJoined
    \/ SlavesJoined
    \/ \E i \in DOMAIN calls : SlaveServes(i)
    \/ \E i \in DOMAIN calls : CalculateRegionInSlaveNode(i)
    \/ \E i \in DOMAIN calls : SlaveCallFails(i)
    \/ Draw
    \/ Keyboard
    \/ WindowShouldClose

Spec == Init /\ [][Next]_vars

\* a step of a started goroutine or the return of a Wait whose counter is zero
Progress ==
    \/ ThreadsJoined
    \/ SlavesJoined
    \/ \E t \in DOMAIN threads : CalculateFragmentInThread(t)
    \/ \E i \in DOMAIN calls : SlaveCallFails(i)
    \/ \E i \in DOMAIN calls : CalculateRegionInSlaveNode(i)
    \/ \E i \in DOMAIN calls : SlaveServes(i)

\* scheduling: while a goroutine can run, a remote call is pending (it gets a
\* reply or, after the one-second deadline, an error) or a Wait can return,
\* one of them eventually does
Fairness == WF_vars(Progress)

LiveSpec == Init /\ [][Next]_vars /\ Fairness

\* one slave process serving the requests of any master
SlaveNodeInit ==
    /\ MasterInit(1, 1, 1, 0)
    /\ \E t \in 1 .. MaxThreadsBound : srv = SrvInit(t)

SlaveNodeNext ==
    \/ \E req \in RequestInputs : SrvCalculateRegion(req)
    \/ \E t \in DOMAIN srv.threads : SrvCalculateFragmentInThread(t)
    \/ SrvReturn

SlaveSpec == SlaveNodeInit /\ [][SlaveNodeNext]_vars

\* ------------------------------- a slave serving one request at a time
\* the slave process with CalculateRegion run to completion per request;
\* kept is one earlier request with its reply, once one was picked
SerialInit(maxThreads) ==
    [m |-> SlaveInit(maxThreads), request |-> <<>>, response |-> <<>>,
     served |-> 0, kept |-> <<>>]

\* CalculateRegion from request to reply, no other request in between;
\* keep tells whether this request and its reply are the pair to remember
SrvServe(req, keep) ==
    /\ ~srv.m.crashed
    /\ srv.served < MaxServed
    /\ keep => srv.kept = <<>>
    /\ LET m1 == CalculateRegion(srv.m, req)
       IN srv' = [srv EXCEPT !.m = m1, !.request = req,
                             !.response = IF m1.crashed THEN <<>> ELSE m1.RGBBuffer,
                             !.served = srv.served + 1,
                             !.kept = IF keep /\ ~m1.crashed THEN <<req, m1.RGBBuffer>>
                                      ELSE srv.kept]
    /\ UNCHANGED masterVars

SerialSlaveInit ==
    /\ MasterInit(1, 1, 1, 0)
    /\ \E t \in 1 .. MaxThreadsBound : srv = SerialInit(t)

\* the requests for region 0, which every master sends
RegionZeroRequests == {req \in RequestInputs : req.RegionIndex = 0}

SerialSlaveNext == \E req \in RegionZeroRequests, keep \in BOOLEAN : SrvServe(req, keep)

SerialSlaveSpec == SerialSlaveInit /\ [][SerialSlaveNext]_vars

\* --------------------------------- a slave serving two requests at once
\* the slave process with two CalculateRegion handlers of the gRPC server
\* sharing the one Mandelbrot struct and its ThreadWaitGroup
ConcurrentInit(maxThreads) ==
    [m |-> SlaveInit(maxThreads), ThreadWaitGroup |-> 0,
     handlers |-> [h \in 0 .. 1 |->
        [st |-> "idle", request |-> <<>>, response |-> <<>>,
         threads |-> [i \in 0 .. (maxThreads - 1) |-> IdleThread]]]]

\* handler h, CalculateRegion up to ThreadWaitGroup.Wait()
HandlerCalculateRegion(h, req) ==
    /\ srv.handlers[h].st = "idle"
    /\ ~srv.m.crashed
    /\ LET m1 == AcceptRequest(srv.m, req)
           args == SlaveThreads(m1, req)
       IN srv' = [srv EXCEPT !.m = m1,
                             !.ThreadWaitGroup = srv.ThreadWaitGroup + m1.MaxThreads,
                             !.handlers[h].st = "wait",
                             !.handlers[h].request = req,
                             !.handlers[h].threads =
                                 [i \in DOMAIN args |-> [st |-> "ready", args |-> args[i]]]]
    /\ UNCHANGED masterVars

\* a fragment goroutine of handler h: it evaluates with the parameters the
\* shared struct holds when it runs and stores into the shared RGBBuffer
HandlerCalculateFragmentInThread(h, t) ==
    /\ ~srv.m.crashed
    /\ srv.handlers[h].threads[t].st = "ready"
    /\ LET a == srv.handlers[h].threads[t].args
           p == Params(srv.m.MagnificationFactor, srv.m.MaxIterations, srv.m.PanX, srv.m.PanY)
       IN IF BufferOverrun(srv.m.RGBBuffer, a, p)
          THEN srv' = [srv EXCEPT !.m.RGBBuffer = StoreBuffer(srv.m.RGBBuffer, a, p),
                                  !.m.crashed = TRUE]
          ELSE srv' = [srv EXCEPT !.m.RGBBuffer = StoreBuffer(srv.m.RGBBuffer, a, p),
                                  !.handlers[h].threads[t].st = "done",
                                  !.ThreadWaitGroup = srv.ThreadWaitGroup - 1]
    /\ UNCHANGED masterVars

\* handler h gets past ThreadWaitGroup.Wait() and replies with RGBBuffer
HandlerReturn(h) ==
    /\ srv.handlers[h].st = "wait"
    /\ ~srv.m.crashed
    /\ srv.ThreadWaitGroup = 0
    /\ srv' = [srv EXCEPT !.handlers[h].st = "returned",
                          !.handlers[h].response = srv.m.RGBBuffer]
    /\ UNCHANGED masterVars

\* the two requests have the region size of one master configuration
ConcurrentSlaveInit ==
    /\ MasterInit(1, 1, 1, 0)
    /\ \E t \in 1 .. MaxThreadsBound : srv = ConcurrentInit(t)

ConcurrentSlaveNext ==
    \/ \E h \in 0 .. 1, req \in RequestInputs :
          /\ \A g \in 0 .. 1 : srv.handlers[g].st # "idle" =>
                /\ srv.handlers[g].request.RegionWidth = req.RegionWidth
                /\ srv.handlers[g].request.RegionHeight = req.RegionHeight
          /\ HandlerCalculateRegion(h, req)
    \/ \E h \in 0 .. 1 : \E t \in DOMAIN srv.handlers[h].threads :
          HandlerCalculateFragmentInThread(h, t)
    \/ \E h \in 0 .. 1 : HandlerReturn(h)

ConcurrentSlaveSpec == ConcurrentSlaveInit /\ [][ConcurrentSlaveNext]_vars

\* the master alone on a small screen, with keys pressed over many frames
KeyboardInit ==
    /\ MasterInit(MaxHeight, MaxHeight, 1, 0)
    /\ srv = SrvInit(1)

\* PanX and PanY are within MaxPan steps of their initial values
PanBounded ==
    /\ \A idx \in DOMAIN PanX : PanX[idx] \in (-MaxPan) .. MaxPan
    /\ \A idx \in DOMAIN PanY : PanY[idx] \in (-MaxPan) .. MaxPan

\* the keys of one ProcessKeyboard: no key is pressed once MaxKeyFrames
\* frames were computed, and no arrow key takes a pan beyond MaxPan steps
KeyboardManyFrames ==
    \E keys \in (IF frame < MaxKeyFrames THEN KeyInputs ELSE {{}}) :
        /\ ProcessKeyboard(keys)
        /\ PanBounded'

KeyboardNext ==
    \/ InitDone
    \/ UpdateClean
    \/ UpdateDirty
    \/ \E t \in DOMAIN threads : CalculateFragmentInThread(t)
    \/ ThreadsJoined
    \/ Draw
    \/ KeyboardManyFrames
    \/ WindowShouldClose

KeyboardSpec == KeyboardInit /\ [][KeyboardNext]_vars

\* ----------------------------------------------------------- properties
\* the columns of a set of cells
Columns(cells) == {c[1] : c \in cells}

\* the cells the master's fragment goroutines stored in this frame
MasterWrites == UNION {threadWrites[t] : t \in DOMAIN threadWrites}

\* a goroutine of the current frame has not finished
GoroutinesRunning ==
    \/ \E t \in DOMAIN threads : threads[t].st = "ready"
    \/ \E i \in DOMAIN calls : calls[i].st \in {"sent", "served"}

\* a dirty frame of the distributed Update has been joined
DistributedFrameDone == SlavesCount >= 1 /\ frame >= 1 /\ pc = "draw"

\* C1: after a distributed Update the columns stored for the slaves' regions
\* and for the master's region are pairwise disjoint and together are exactly
\* the columns 0 .. ScreenWidth-1
C1_RegionsTileScreen ==
    DistributedFrameDone =>
        /\ \A i, j \in DOMAIN slaveWrites :
              i # j => Columns(slaveWrites[i]) \cap Columns(slaveWrites[j]) = {}
        /\ \A i \in DOMAIN slaveWrites : Columns(slaveWrites[i]) \cap Columns(MasterWrites) = {}
        /\ Columns(MasterWrites) \cup UNION {Columns(slaveWrites[i]) : i \in DOMAIN slaveWrites}
              = 0 .. (ScreenWidth - 1)

\* C2: a failed or timed out CalculateRegion call of one slave does not end
\* the master process
C2_SlaveFailureNotFatal == pc # "fatal"

\* C3: whenever main is outside Update (about to draw, to read the keyboard
\* or to call Update again) no goroutine of a frame is running and both
\* wait groups are back at zero
C3_DrawAfterJoin ==
    pc \in {"draw", "keyboard", "update"} =>
        ~GoroutinesRunning /\ ThreadWaitGroup = 0 /\ DistributedWaitGroup = 0

\* C3 witness: main is about to draw a distributed frame all of whose
\* goroutines have finished
C3_Witness ==
    /\ DistributedFrameDone
    /\ \A i \in DOMAIN calls : calls[i].st = "done"
    /\ \A t \in DOMAIN threads : threads[t].st = "done"
    /\ MasterWrites # {}

\* C4: in a distributed frame the columns stored by different nodes' writers
\* never overlap, and the column ranges handed to the nodes are consecutive:
\* x_end of node i plus 1 is x_start of node i+1, the master being the last node
C4_NodesDisjointConsecutive ==
    (SlavesCount >= 1 /\ frame >= 1) =>
        /\ \A i, j \in DOMAIN slaveWrites :
              i # j => Columns(slaveWrites[i]) \cap Columns(slaveWrites[j]) = {}
        /\ \A i \in DOMAIN slaveWrites : Columns(slaveWrites[i]) \cap Columns(MasterWrites) = {}
        /\ \A i \in DOMAIN calls :
              calls[i].x_end + 1 = (IF i + 1 \in DOMAIN calls THEN calls[i + 1].x_start
                                    ELSE threads[0].args.x_start)

\* C4 witness: two slaves and the master have all stored columns in one frame
C4_Witness ==
    /\ SlavesCount >= 2
    /\ pc = "draw"
    /\ \A i \in DOMAIN slaveWrites : slaveWrites[i] # {}
    /\ MasterWrites # {}

\* C5: the fragment goroutines of one call store into pairwise disjoint cells
C5_FragmentsDisjoint ==
    \A t1, t2 \in DOMAIN threadWrites : t1 # t2 => threadWrites[t1] \cap threadWrites[t2] = {}

\* C6: in single-computer mode a dirty Update recomputes every column
C6_SingleComputerAllColumns ==
    (SlavesCount = 0 /\ frame >= 1 /\ pc = "draw") =>
        Columns(MasterWrites) = 0 .. (ScreenWidth - 1)

\* C7: every column computed in a frame is computed for all rows 0 .. ScreenHeight-1
C7_FullHeight ==
    (frame >= 1 /\ pc = "draw") =>
        /\ \A x \in Columns(MasterWrites) :
              {c[2] : c \in {d \in MasterWrites : d[1] = x}} = 0 .. (ScreenHeight - 1)
        /\ \A i \in DOMAIN slaveWrites : \A x \in Columns(slaveWrites[i]) :
              {c[2] : c \in {d \in slaveWrites[i] : d[1] = x}} = 0 .. (RegionHeight - 1)

\* C8: the colour decoded from a slave's reply into Pixels[x][y] is the
\* colour of screen coordinate (x, y) under the frame's parameters
C8_DecodedEqualsLocal ==
    \A i \in DOMAIN calls :
        (calls[i].st = "done" /\ pc \in {"wait_threads", "wait_distributed", "draw"}) =>
            \A c \in slaveWrites[i] :
                LET col == GetPixelColorAtPosition(c[1], c[2], MasterParams)
                IN Pixels[c[1]][c[2]] = NewColor(col[1], col[2], col[3], Lit(255))

\* C9: the reply to a request has exactly RegionWidth*RegionHeight*3 bytes
C9_ReplyLength ==
    (srv.st = "idle" /\ srv.served >= 1) =>
        BufLen(srv.response) = srv.request.RegionWidth * srv.request.RegionHeight * 3

\* C10: when a slave call has failed, the sibling calls and the master's
\* fragment goroutines of the frame still complete: the process never stops
\* with another goroutine of the frame unfinished
C10_FailureLeavesSiblings ==
    pc = "fatal" =>
        /\ \A t \in DOMAIN threads : threads[t].st = "done"
        /\ Cardinality({i \in DOMAIN calls : calls[i].st # "done"}) <= 1

\* C11 (as claimed): a slave's pixels are stored in Pixels only once every
\* remote call and the local evaluation of the frame have completed
C11_CompositeAfterFanOut ==
    \A i \in DOMAIN slaveWrites : slaveWrites[i] # {} => ~GoroutinesRunning

\* C11 (amended): a slave's pixels are stored in Pixels only when that
\* slave's own call has delivered its reply, and while Update is still waiting
C11_CompositeAfterOwnReply ==
    [][\A i \in DOMAIN calls :
          (slaveWrites'[i] # slaveWrites[i] /\ slaveWrites'[i] # {}) =>
              (calls[i].st = "served" /\ pc \in {"wait_threads", "wait_distributed"})]_vars

\* C11 witness: a slave's pixels are in Pixels while another goroutine of
\* the frame is still running
C11_Witness ==
    /\ \E i \in DOMAIN slaveWrites : slaveWrites[i] # {} /\ calls[i].st = "done"
    /\ GoroutinesRunning

\* C12: CalculateRegionLocally (and the single-computer loop) gets past
\* ThreadWaitGroup.Wait() only when every fragment goroutine it started has finished
C12_LocalJoin ==
    [][(pc = "wait_threads" /\ pc' \in {"wait_distributed", "draw"}) =>
          \A t \in DOMAIN threads : threads[t].st = "done"]_vars

\* C12 witness: the local region of a distributed frame has been joined, with
\* at least two fragment goroutines that stored pixels
C12_Witness ==
    /\ pc = "wait_distributed"
    /\ MaxThreads >= 2
    /\ \A t \in DOMAIN threads : threads[t].st = "done"
    /\ MasterWrites # {}

\* C13: Update with NeedUpdate false starts no goroutine, issues no call and
\* leaves Pixels, the times and the render parameters unchanged
C13_CleanUpdateNoOp ==
    [][(pc = "update" /\ ~NeedUpdate /\ pc' \notin {"update", "closed"}) =>
          /\ pc' = "draw"
          /\ UNCHANGED <<Pixels, ThreadsProcessTimes, TotalProcessTime,
                         MagnificationFactor, MaxIterations, PanX, PanY,
                         threads, calls, slaves, ThreadWaitGroup, DistributedWaitGroup>>]_vars

\* C13 witness: a clean Update has returned after a computed frame
C13_Witness == pc = "draw" /\ ~NeedUpdate /\ frame >= 1 /\ Canvas # <<>>

\* C14: while a frame is computed and until it is drawn, every request of the
\* frame carries the master's render parameters, and the pixels stored by the
\* master's fragment goroutines were computed with the same parameters
C14_FrameParams ==
    pc \in {"wait_threads", "wait_distributed", "draw"} =>
        /\ \A i \in DOMAIN calls : RequestParams(calls[i].request) = MasterParams
        /\ \A c \in MasterWrites :
              LET col == GetPixelColorAtPosition(c[1], c[2], MasterParams)
              IN Pixels[c[1]][c[2]] = NewColor(col[1], col[2], col[3], Lit(255))

\* C14 witness: a second frame, computed with changed parameters by a slave
\* and by the master, is about to be drawn
C14_Witness ==
    /\ DistributedFrameDone
    /\ frame >= 2
    /\ MasterParams # Params(<<400>>, 8000, <<>>, <<>>)
    /\ MasterWrites # {}
    /\ \A i \in DOMAIN calls : calls[i].st = "done"

\* the number of columns handed to node n (slaves 0..SlavesCount-1, then the master)
NodeWidth(cs, ths, n) ==
    IF n \in DOMAIN cs THEN cs[n].x_end - cs[n].x_start + 1
    ELSE ths[0].args.x_region_end - ths[0].args.x_start

\* the sum of f[0] .. f[n]
RECURSIVE SumTo(_, _)
SumTo(f, n) == IF n < 0 THEN 0 ELSE f[n] + SumTo(f, n - 1)

\* C17: the nodes' shares of the screen width, in percent (100 * width /
\* ScreenWidth for slaves first, master last), add up to 100 and each lies in 0..100
C17_SharesSumTo100 ==
    (SlavesCount >= 1 /\ frame >= 1) =>
        /\ SumTo([n \in 0 .. SlavesCount |-> 100 * NodeWidth(calls, threads, n)], SlavesCount)
              = 100 * ScreenWidth
        /\ \A n \in 0 .. SlavesCount :
              NodeWidth(calls, threads, n) >= 0 /\ NodeWidth(calls, threads, n) <= ScreenWidth

\* the per-node times one frame can measure
Latencies == [0 .. SlavesCount -> 1 .. MaxLatency]

\* index of the minimum, first seen wins
Fastest(lat) == CHOOSE n \in DOMAIN lat :
    /\ \A k \in DOMAIN lat : lat[n] <= lat[k]
    /\ \A k \in DOMAIN lat : k < n => lat[k] > lat[n]

\* index of the maximum, first seen wins
Slowest(lat) == CHOOSE n \in DOMAIN lat :
    /\ \A k \in DOMAIN lat : lat[n] >= lat[k]
    /\ \A k \in DOMAIN lat : k < n => lat[k] < lat[n]

\* C18: a dirty Update after the first frame moves one percent of the screen
\* width from the slowest node of the previous frame to the fastest one,
\* whatever times that frame measured, when these differ and the shares allow
\* it, and otherwise keeps the widths
C18_Rebalance ==
    [][(pc = "update" /\ pc' = "wait_threads" /\ frame >= 1 /\ SlavesCount >= 1) =>
          \A lat \in Latencies :
              LET f == Fastest(lat)
                  sl == Slowest(lat)
                  move == f # sl /\ NodeWidth(calls, threads, f) < ScreenWidth
                                 /\ NodeWidth(calls, threads, sl) > 0
              IN \A n \in 0 .. SlavesCount :
                    100 * NodeWidth(calls', threads', n) =
                        100 * NodeWidth(calls, threads, n)
                        + (IF move /\ n = f THEN ScreenWidth ELSE 0)
                        - (IF move /\ n = sl THEN ScreenWidth ELSE 0)]_vars

\* C19: main computes frames only with every listed slave connected, and a
\* connection error ends the process before any frame, call or drawing
C19_FailFast ==
    /\ (pc \notin {"connect", "nodial"} \/ frame >= 1) =>
          \A i \in DOMAIN SlavesClients.conn : SlavesClients.conn[i]
    /\ pc = "nodial" =>
          /\ frame = 0 /\ Canvas = <<>> /\ Pixels = <<>>
          /\ \A i \in DOMAIN calls : calls[i].st = "idle"
          /\ \A t \in DOMAIN threads : threads[t].st = "idle"

\* C19 witness: the process has ended in Init with some slaves connected and
\* the next one failing
C19_Witness ==
    /\ pc = "nodial"
    /\ \E i \in DOMAIN SlavesClients.conn : SlavesClients.conn[i]
    /\ \E i \in DOMAIN SlavesClients.conn : ~SlavesClients.conn[i]

\* C20: no fragment goroutine of the master is started on cells outside Pixels
C20_NoIndexOutOfRange ==
    \A t \in DOMAIN threads :
        threads[t].st = "ready" => ~PixelsOverrun(threads[t].args, ScreenWidth, ScreenHeight)

\* C15: a request served again by the same slave gets the same bytes as before
C15_SameRequestSameReply ==
    (srv.kept # <<>> /\ ~srv.m.crashed /\ srv.request = srv.kept[1]) =>
        srv.response = srv.kept[2]

\* C16: the reply of each of two requests handled at once is the reply the
\* request gets when it is served alone
C16_ConcurrentAsAlone ==
    \A h \in 0 .. 1 :
        srv.handlers[h].st = "returned" =>
            srv.handlers[h].response =
                CalculateRegion(SlaveInit(srv.m.MaxThreads), srv.handlers[h].request).RGBBuffer

\* C21: whenever ProcessKeyboard handles an arrow key, int(ZoomLevel) is an
\* index of the 16-entry MovementOffset table
C21_MovementOffsetInRange ==
    [][(pc = "keyboard" /\ (PanX' # PanX \/ PanY' # PanY \/ pc' = "panic")) =>
          TruncInt(ZoomLevel) \in 0 .. 15]_vars

\* the colour was computed by GetPixelColorAtPosition with parameters p, or
\* is built from literal bytes only
ComputedWith(color, p) ==
    \A ch \in 1 .. 3 : Len(color[ch]) = 4 => color[ch][4] = p

\* C22: whenever main is about to Draw, a frame has been computed and every
\* computed pixel of Pixels was computed with the current render parameters
C22_DrawnWithCurrentParams ==
    pc = "draw" =>
        /\ frame >= 1
        /\ \A x \in DOMAIN Pixels : \A y \in DOMAIN Pixels[x] :
              ComputedWith(Pixels[x][y], MasterParams)

\* C22 witness: a second frame, computed after a key changed the parameters,
\* is about to be drawn
C22_Witness ==
    /\ pc = "draw"
    /\ frame >= 2
    /\ MasterParams # Params(<<400>>, 8000, <<>>, <<>>)
    /\ \E x \in DOMAIN Pixels : \E y \in DOMAIN Pixels[x] : Len(Pixels[x][y][1]) = 4

\* C23: a dirty Update that has started its goroutines eventually returns
\* or the process exits, and both WaitGroup counters are zero when it returns
C23_UpdateEnds ==
    /\ (pc \in {"wait_threads", "wait_distributed"}) ~> (pc \in {"draw", "fatal", "panic"})
    /\ [](pc = "draw" => (ThreadWaitGroup = 0 /\ DistributedWaitGroup = 0))

\* C23 witness: the second dirty Update of a master with slaves and several
\* fragment goroutines has returned
C23_Witness ==
    /\ pc = "draw"
    /\ NeedUpdate
    /\ frame >= 2
    /\ SlavesCount >= 1
    /\ MaxThreads >= 2
    /\ ThreadWaitGroup = 0
    /\ DistributedWaitGroup = 0

\* C24: in a reply, the pixel of region-relative column col and row y is at
\* pixel index col*RegionHeight + y, as bytes R, G, B; and the pixel the master
\* stores at the col-th column and row y of the region is read from that index
C24_SameOrder ==
    \A i \in DOMAIN calls :
        LET c == calls[i]
            req == c.request
            buf == c.response
        IN /\ c.st \in {"served", "done"} =>
                 \A col \in 0 .. (req.RegionWidth - 1) : \A y \in 0 .. (req.RegionHeight - 1) :
                     LET k == col * req.RegionHeight + y
                     IN <<buf[3 * k], buf[3 * k + 1], buf[3 * k + 2]>> =
                            GetPixelColorAtPosition(req.RegionIndex * req.RegionWidth + col, y,
                                                    RequestParams(req))
           /\ (c.st = "done" /\ pc \in {"wait_threads", "wait_distributed", "draw"}) =>
                 \A cell \in slaveWrites[i] :
                     LET k == (cell[1] - c.x_start) * req.RegionHeight + cell[2]
                     IN Pixels[cell[1]][cell[2]] =
                            NewColor(buf[3 * k], buf[3 * k + 1], buf[3 * k + 2], Lit(255))

\* C24 witness: a reply of several columns and rows, computed by several
\* fragment goroutines, has been decoded into Pixels
C24_Witness ==
    \E i \in DOMAIN calls :
        /\ calls[i].st = "done"
        /\ RegionWidth >= 2
        /\ RegionHeight >= 2
        /\ MaxThreads >= 2
        /\ Cardinality(Columns(slaveWrites[i])) >= 2

\* the indices of RGBBuffer the goroutines with arguments args store into
StoredIndices(args, p) ==
    UNION {{st[1] : st \in BufferStores(args[t], p)} : t \in DOMAIN args}

\* C25: the fragment goroutines of a request on a slave have fragment width
\* ceil(RegionWidth / MaxThreads), evaluate no column at or beyond the region's
\* end and together evaluate every column of the region; once the call has
\* returned they have stored every byte of the pixel slots
\* 0 .. RegionWidth*RegionHeight-1, each with the colour of its coordinate
C25_SlaveFragments ==
    (srv.st = "wait" \/ (srv.st = "idle" /\ srv.served >= 1)) =>
        LET req == srv.request
            x0 == req.RegionIndex * req.RegionWidth
            args == [t \in DOMAIN srv.threads |-> srv.threads[t].args]
            p == RequestParams(req)
        IN /\ \A t \in DOMAIN args :
                 args[t].x_end - args[t].x_start = CeilDiv(req.RegionWidth, srv.m.MaxThreads)
           /\ \A t \in DOMAIN args : \A x \in FragmentColumns(args[t]) :
                 x < x0 + req.RegionWidth
           /\ UNION {FragmentColumns(args[t]) : t \in DOMAIN args} =
                 x0 .. (x0 + req.RegionWidth - 1)
           /\ (srv.st = "idle" /\ ~srv.m.crashed) =>
                 /\ StoredIndices(args, p) = 0 .. (req.RegionWidth * req.RegionHeight * 3 - 1)
                 /\ \A col \in 0 .. (req.RegionWidth - 1) : \A y \in 0 .. (req.RegionHeight - 1) :
                       LET k == col * req.RegionHeight + y
                       IN <<srv.response[3 * k], srv.response[3 * k + 1], srv.response[3 * k + 2]>> =
                              GetPixelColorAtPosition(x0 + col, y, p)

\* C25 witness: a slave with two fragment goroutines has returned the reply
\* for a region of three columns
C25_Witness ==
    /\ srv.st = "idle"
    /\ srv.served >= 1
    /\ ~srv.m.crashed
    /\ srv.m.MaxThreads = 2
    /\ srv.request.RegionWidth = 3
    /\ srv.request.RegionHeight >= 2

====
